---- MODULE Spec2Model ----
(***************************************************************************)
(* OrgLoop connectors and transforms as state machines:                    *)
(*   - AgentGateTransform  (transforms/agent-gate/src/agent-gate.ts)       *)
(*   - AgentCtlSource      (agent-ctl source connector)                    *)
(*   - DockerTarget        (connectors/docker/src/target.ts)               *)
(*   - OpenClawTarget      (connectors/openclaw/src/target.ts)             *)
(* Every async method is split at its await: a Start step runs the code up *)
(* to the await, a Return step runs the continuation with the outcome the  *)
(* environment produced.  The value a call hands back to its caller is     *)
(* recorded in a *Return variable (the last completed call).               *)
(***************************************************************************)
EXTENDS Integers, Sequences, FiniteSets, TLC

\* JavaScript undefined / null, and the empty object {}.
Undef == "undefined"
Null == "null"
Empty == [x \in {} |-> x]

\* obj.key of a config/route/payload object: undefined when the key is absent.
Has(obj, k) == k \in DOMAIN obj

\* JavaScript truthiness of a string-or-undefined value.
Truthy(v) == v \notin {Undef, Null, ""}

\* Array.prototype.includes on a sequence.
Includes(seq, v) == \E i \in 1..Len(seq) : seq[i] = v

\* All sequences over S of length at most n.
SeqUpTo(S, n) == UNION {[1..k -> S] : k \in 0..n}

VARIABLES
    gate,            \* AgentGateTransform's private fields
    gateInitResult,  \* how the last AgentGateTransform.init call ended
    gateCalls,       \* per caller: the execute call in flight, if any
    gateReturn       \* what the last completed execute call returned

gateVars == <<gate, gateInitResult, gateCalls, gateReturn>>

VARIABLES
    previousState,   \* AgentCtlSource.previousState: a Map, in insertion order
    pollCall,        \* the poll call in flight, if any
    pollReturn,      \* what the last completed poll call handed back
    clock            \* wall-clock time (new Date())

sourceVars == <<previousState, pollCall, pollReturn, clock>>

VARIABLES
    docker,          \* DockerTarget's private fields
    claw,            \* OpenClawTarget's private fields
    deliveries       \* per caller: its deliver call, in flight or returned

targetVars == <<docker, claw, deliveries>>

VARIABLES
    env,             \* process.env: the variables that are set, with their values
    dotenvCall,      \* the loadDotEnv call in flight, if any
    dotenvReturn,    \* what the last completed loadDotEnv call returned
    resolveCall,     \* the resolveConnectors call in flight, if any
    resolveReturn    \* how the last completed resolveConnectors call ended

cliVars == <<env, dotenvCall, dotenvReturn, resolveCall, resolveReturn>>

vars == <<gateVars, sourceVars, targetVars, cliVars>>

-----------------------------------------------------------------------------
(* AgentGateTransform                                                      *)

KNOWN_CONFIG_KEYS == {"binary_path", "adapter_filter", "active_statuses", "timeout"}
DEFAULT_BINARY == "agent-ctl"
DEFAULT_ACTIVE_STATUSES == <<"running">>
DEFAULT_TIMEOUT == 5000

\* Bounds of the gate model.
MaxSessions == 2        \* longest session list, sequential specification
MaxConcSessions == 1    \* longest session list, concurrent specification
NumCallers == 2         \* concurrent callers of execute / deliver

Callers == 1..NumCallers

\* Sessions agent-ctl may list (only status and adapter are read by the gate).
GateSessions ==
    { [status |-> "running", adapter |-> "claude-code"],
      [status |-> "running", adapter |-> "other-agent"],
      [status |-> "paused",  adapter |-> "claude-code"],
      [status |-> "stopped", adapter |-> "claude-code"] }

ConcGateSessions ==
    { [status |-> "running", adapter |-> "claude-code"],
      [status |-> "running", adapter |-> "other-agent"],
      [status |-> "stopped", adapter |-> "claude-code"] }

\* What execFile + stdout can be: the process fails (binary missing, timeout),
\* or it prints something that is not JSON, JSON null, a JSON array of
\* sessions, or a JSON object with or without a "sessions" member.
ExecOutcomes(lists, wrapped) ==
    { [kind |-> "error", why |-> w] : w \in {"ENOENT", "ETIMEDOUT"} }
    \cup { [kind |-> "stdout", json |-> j] : j \in {"invalid", "null", "object"} }
    \cup { [kind |-> "stdout", json |-> "array", items |-> l] : l \in lists }
    \cup { [kind |-> "stdout", json |-> "object", sessions |-> l] : l \in wrapped }

\* Lists printed as {"sessions": [...]} rather than as a bare array.
WrappedLists ==
    { <<>>,
      <<[status |-> "running", adapter |-> "claude-code"]>>,
      <<[status |-> "stopped", adapter |-> "claude-code"]>> }

GateOutcomes == ExecOutcomes(SeqUpTo(GateSessions, MaxSessions), WrappedLists)
ConcGateOutcomes == ExecOutcomes(SeqUpTo(ConcGateSessions, MaxConcSessions), {<<>>})

\* execAgentCtl: reject on a process error, on unparseable output and on JSON
\* null (parsed.sessions throws inside the try); otherwise resolve with the
\* array, or with parsed.sessions ?? [].
execAgentCtl(raw) ==
    IF raw.kind = "error" THEN [ok |-> FALSE]
    ELSE IF raw.json \in {"invalid", "null"} THEN [ok |-> FALSE]
    ELSE IF raw.json = "array" THEN [ok |-> TRUE, sessions |-> raw.items]
    ELSE [ok |-> TRUE, sessions |-> IF Has(raw, "sessions") THEN raw.sessions ELSE <<>>]

\* Config objects handed to init.
ValidGateConfigs ==
    { b @@ a @@ s :
        b \in {Empty, ("binary_path" :> "/usr/local/bin/agent-ctl") @@ ("timeout" :> 10000)},
        a \in {Empty, "adapter_filter" :> "", "adapter_filter" :> "claude-code"},
        s \in {Empty, "active_statuses" :> <<"running", "paused">>, "active_statuses" :> <<>>} }
    \cup { "binary_path" :> "/usr/local/bin/agent-ctl", "timeout" :> 10000 }

InvalidGateConfigs ==
    { "unknown_key" :> "value",
      ("unknown_key" :> "value") @@ ("adapter_filter" :> "other-agent")
        @@ ("timeout" :> 10000),
      ("unknown_key" :> "value") @@ ("other_key" :> "x")
        @@ ("binary_path" :> "/usr/local/bin/agent-ctl")
        @@ ("active_statuses" :> <<"running", "paused">>) }

ConcGateConfigs ==
    { a @@ s :
        a \in {Empty, "adapter_filter" :> "claude-code"},
        s \in {Empty, "active_statuses" :> <<"stopped">>} }
    \cup InvalidGateConfigs

GateEvents == {"e1", "e2"}

\* Field initialisers of the class.
GateConstructed ==
    [ binaryPath     |-> DEFAULT_BINARY,
      adapterFilter  |-> Undef,
      activeStatuses |-> DEFAULT_ACTIVE_STATUSES,
      timeoutMs      |-> DEFAULT_TIMEOUT ]

UnknownKeys(config) == {k \in DOMAIN config : k \notin KNOWN_CONFIG_KEYS}

\* The fields init assigns from a config.
GateAssigned(config) ==
    [ binaryPath     |-> IF Has(config, "binary_path")
                           THEN config["binary_path"] ELSE DEFAULT_BINARY,
      adapterFilter  |-> IF Has(config, "adapter_filter")
                           THEN config["adapter_filter"] ELSE Undef,
      activeStatuses |-> IF Has(config, "active_statuses")
                           THEN config["active_statuses"]
                           ELSE DEFAULT_ACTIVE_STATUSES,
      timeoutMs      |-> IF Has(config, "timeout")
                           THEN config["timeout"] ELSE DEFAULT_TIMEOUT ]

\* An init that assigns the fields first and validates the keys afterwards.
GateInitAssignsFirst(config) ==
    /\ gate' = GateAssigned(config)
    /\ gateInitResult' =
         IF UnknownKeys(config) # {}
           THEN [kind |-> "threw", config |-> config, unknownKeys |-> UnknownKeys(config)]
           ELSE [kind |-> "ok", config |-> config]
    /\ UNCHANGED <<gateCalls, gateReturn>>
    /\ UNCHANGED <<sourceVars, targetVars, cliVars>>

\* init: throws on unknown keys before any assignment; otherwise assigns the
\* four fields, each `c.key ?? default` (adapter_filter has no default).
GateInit(config) ==
    /\ IF UnknownKeys(config) # {}
         THEN /\ gateInitResult' = [kind |-> "threw", config |-> config,
                                     unknownKeys |-> UnknownKeys(config)]
              /\ UNCHANGED gate
         ELSE /\ gateInitResult' = [kind |-> "ok", config |-> config]
              /\ gate' = GateAssigned(config)
    /\ UNCHANGED <<gateCalls, gateReturn>>
    /\ UNCHANGED <<sourceVars, targetVars, cliVars>>

\* A filter that forgets the adapter filter.
IsActiveSessionAnyAdapter(g, s) == Includes(g.activeStatuses, s.status)

\* The filter predicate of execute, read from the instance fields g.
IsActiveSession(g, s) ==
    /\ Includes(g.activeStatuses, s.status)
    /\ (~Truthy(g.adapterFilter) \/ s.adapter = g.adapterFilter)

\* The event kept in a field shared by all calls: the latest caller's.
EventOfShared(c) ==
    gateCalls[CHOOSE d \in Callers :
                /\ gateCalls[d].pc = "awaiting"
                /\ \A e \in Callers : gateCalls[e].pc = "awaiting" => e <= d].event

\* The event a call returns when the gate is open: its own parameter.
EventOf(c) == gateCalls[c].event

\* A gate that fails closed.
ExecuteResultFailClosed(g, event, r) ==
    IF ~r.ok THEN Null
    ELSE IF Len(SelectSeq(r.sessions, LAMBDA s : IsActiveSession(g, s))) > 0 THEN Null
    ELSE event

\* What execute returns once _execFn has settled with r.
ExecuteResult(g, event, r) ==
    IF ~r.ok THEN event
    ELSE IF Len(SelectSeq(r.sessions, LAMBDA s : IsActiveSession(g, s))) > 0 THEN Null
    ELSE event

\* execute up to its await: calls _execFn(this.binaryPath, this.timeoutMs).
ExecuteStart(c, event) ==
    /\ gateCalls[c].pc = "idle"
    /\ gateCalls' = [gateCalls EXCEPT ![c] =
                       [pc |-> "awaiting", event |-> event,
                        binary |-> gate.binaryPath, timeout |-> gate.timeoutMs]]
    /\ UNCHANGED <<gate, gateInitResult, gateReturn>>
    /\ UNCHANGED <<sourceVars, targetVars, cliVars>>

\* execute from its await on: the catch or the filter, then the return.
ExecuteReturn(c, raw) ==
    /\ gateCalls[c].pc = "awaiting"
    /\ gateReturn' = [call |-> c, raw |-> raw,
                      result |-> ExecuteResult(gate, EventOf(c), execAgentCtl(raw))]
    /\ gateCalls' = [gateCalls EXCEPT ![c] = [pc |-> "idle"]]
    /\ UNCHANGED <<gate, gateInitResult>>
    /\ UNCHANGED <<sourceVars, targetVars, cliVars>>

GateInitState ==
    /\ gate = GateConstructed
    /\ gateInitResult = [kind |-> "none"]
    /\ gateCalls = [c \in Callers |-> [pc |-> "idle"]]
    /\ gateReturn = [call |-> 0]

\* One caller at a time, the full input space.
NextGate ==
    \/ \E config \in ValidGateConfigs : GateInit(config)
    \/ ExecuteStart(1, "e1")
    \/ \E raw \in GateOutcomes : ExecuteReturn(1, raw)

\* Concurrent callers.
NextGateConc ==
    \/ \E config \in ConcGateConfigs : GateInit(config)
    \/ \E c \in Callers, event \in GateEvents : ExecuteStart(c, event)
    \/ \E c \in Callers, raw \in ConcGateOutcomes : ExecuteReturn(c, raw)


-----------------------------------------------------------------------------
(* AgentCtlSource                                                          *)

\* Bounds of the source model.
MaxListing == 2         \* longest session listing
MaxClock == 2           \* last instant of the wall clock

SessionIds == {"s1", "s2"}
SessionStatuses == {"running", "idle", "stopped", "error"}

\* Sessions agent-ctl may list (the diff reads only id and status).
SourceSessions == [id : SessionIds, status : SessionStatuses]

\* What execFn + stdout can be: the process fails, or prints something that
\* is not JSON, JSON that is no array, or a JSON array of sessions.
SourceOutcomes ==
    { [kind |-> "error", why |-> w] : w \in {"ENOENT", "ETIMEDOUT"} }
    \cup { [kind |-> "stdout", json |-> j] : j \in {"invalid", "nonarray"} }
    \cup { [kind |-> "stdout", json |-> "array", items |-> l] :
             l \in SeqUpTo(SourceSessions, MaxListing) }

\* listSessions: the parsed array; [] when the output is no array, and when
\* the call or the parse throws (the catch returns []).
listSessions(raw) ==
    IF raw.kind = "error" THEN <<>>
    ELSE IF raw.json = "array" THEN raw.items
    ELSE <<>>

\* Map.prototype.has / get, on a Map kept as the sequence of its values in
\* insertion order (the key of a value is its id).
MapHas(m, id) == \E i \in 1..Len(m) : m[i].id = id
MapGet(m, id) == m[CHOOSE i \in 1..Len(m) : m[i].id = id]

\* Map.prototype.set: a present key keeps its place and takes the new value.
MapSet(m, s) ==
    IF MapHas(m, s.id)
      THEN [i \in 1..Len(m) |-> IF m[i].id = s.id THEN s ELSE m[i]]
      ELSE Append(m, s)

\* new Map(sessions.map((s) => [s.id, s]))
RECURSIVE MapFrom(_, _)
MapFrom(sessions, acc) ==
    IF sessions = <<>> THEN acc
    ELSE MapFrom(Tail(sessions), MapSet(acc, Head(sessions)))

\* buildSessionEvent: the fields of the event the diff decides.
buildSessionEvent(eventType, session) ==
    [action |-> eventType, session_id |-> session.id, status |-> session.status]

\* A diff that reports session.idle on every change to idle, whatever the
\* previous status.
DiffSessionIdleFromAny(prev, session) ==
    IF ~MapHas(prev, session.id)
      THEN IF session.status \in {"running", "idle"}
             THEN <<buildSessionEvent("session.started", session)>>
           ELSE IF session.status = "stopped"
             THEN <<buildSessionEvent("session.stopped", session)>>
           ELSE IF session.status = "error"
             THEN <<buildSessionEvent("session.error", session)>>
           ELSE <<>>
    ELSE IF MapGet(prev, session.id).status # session.status
      THEN IF session.status = "stopped"
             THEN <<buildSessionEvent("session.stopped", session)>>
           ELSE IF session.status = "error"
             THEN <<buildSessionEvent("session.error", session)>>
           ELSE IF session.status = "idle"
             THEN <<buildSessionEvent("session.idle", session)>>
           ELSE IF session.status = "running" /\ MapGet(prev, session.id).status # "running"
             THEN <<buildSessionEvent("session.started", session)>>
           ELSE <<>>
    ELSE <<>>

\* The events the first loop of diffState pushes for one current session.
DiffSession(prev, session) ==
    IF ~MapHas(prev, session.id)
      THEN IF session.status \in {"running", "idle"}
             THEN <<buildSessionEvent("session.started", session)>>
           ELSE IF session.status = "stopped"
             THEN <<buildSessionEvent("session.stopped", session)>>
           ELSE IF session.status = "error"
             THEN <<buildSessionEvent("session.error", session)>>
           ELSE <<>>
    ELSE IF MapGet(prev, session.id).status # session.status
      THEN IF session.status = "stopped"
             THEN <<buildSessionEvent("session.stopped", session)>>
           ELSE IF session.status = "error"
             THEN <<buildSessionEvent("session.error", session)>>
           ELSE IF session.status = "idle" /\ MapGet(prev, session.id).status = "running"
             THEN <<buildSessionEvent("session.idle", session)>>
           ELSE IF session.status = "running" /\ MapGet(prev, session.id).status # "running"
             THEN <<buildSessionEvent("session.started", session)>>
           ELSE <<>>
    ELSE <<>>

\* A second loop that reports every absent session, a stopped one too.
DiffDisappearedAnyStatus(current, prevSession) ==
    IF ~MapHas(current, prevSession.id)
      THEN <<buildSessionEvent("session.stopped",
                               [prevSession EXCEPT !.status = "stopped"])>>
      ELSE <<>>

\* The events the second loop pushes for one previously tracked session.
DiffDisappeared(current, prevSession) ==
    IF ~MapHas(current, prevSession.id) /\ prevSession.status # "stopped"
      THEN <<buildSessionEvent("session.stopped",
                               [prevSession EXCEPT !.status = "stopped"])>>
      ELSE <<>>

RECURSIVE DiffCurrent(_, _)
DiffCurrent(prev, rest) ==
    IF rest = <<>> THEN <<>>
    ELSE DiffSession(prev, Head(rest)) \o DiffCurrent(prev, Tail(rest))

RECURSIVE DiffPrevious(_, _)
DiffPrevious(current, rest) ==
    IF rest = <<>> THEN <<>>
    ELSE DiffDisappeared(current, Head(rest)) \o DiffPrevious(current, Tail(rest))

\* diffState(current), with this.previousState = prev.
diffState(prev, current) == DiffCurrent(prev, current) \o DiffPrevious(current, prev)

\* The checkpoint poll hands back: new Date().toISOString().
PollCheckpoint == clock

\* poll up to the await inside listSessions; the checkpoint parameter is
\* never read.
PollStart(checkpoint) ==
    /\ pollCall.pc = "idle"
    /\ pollCall' = [pc |-> "awaiting"]
    /\ UNCHANGED <<previousState, pollReturn, clock>>
    /\ UNCHANGED <<gateVars, targetVars, cliVars>>

\* poll from the await on: build the Map, diff, replace previousState and
\* return the events with a checkpoint.
PollReturn(raw) ==
    /\ pollCall.pc = "awaiting"
    /\ LET currentState == MapFrom(listSessions(raw), <<>>)
       IN /\ pollReturn' = [kind |-> "returned",
                            listing |-> IF raw.kind = "error" THEN "error" ELSE raw.json,
                            listed |-> {listSessions(raw)[i].id :
                                          i \in 1..Len(listSessions(raw))},
                            events |-> diffState(previousState, currentState),
                            checkpoint |-> PollCheckpoint]
          /\ previousState' = currentState
    /\ pollCall' = [pc |-> "idle"]
    /\ UNCHANGED clock
    /\ UNCHANGED <<gateVars, targetVars, cliVars>>

\* shutdown: previousState.clear()
SourceShutdown ==
    /\ previousState' = <<>>
    /\ UNCHANGED <<pollCall, pollReturn, clock>>
    /\ UNCHANGED <<gateVars, targetVars, cliVars>>

\* Time passes.
Tick ==
    /\ clock < MaxClock
    /\ clock' = clock + 1
    /\ UNCHANGED <<previousState, pollCall, pollReturn>>
    /\ UNCHANGED <<gateVars, targetVars, cliVars>>

SourceInitState ==
    /\ previousState = <<>>
    /\ pollCall = [pc |-> "idle"]
    /\ pollReturn = [kind |-> "none"]
    /\ clock = 0

NextSource ==
    \/ PollStart(IF pollReturn.kind = "none" THEN Null ELSE pollReturn.checkpoint)
    \/ \E raw \in SourceOutcomes : PollReturn(raw)
    \/ SourceShutdown
    \/ Tick

-----------------------------------------------------------------------------
(* DockerTarget                                                            *)

VALID_ACTIONS == {"cluster.shutdown", "cluster.start", "container.stop", "container.start"}
DOCKER_DEFAULT_TIMEOUT == 60000

\* A number as a JavaScript value, and a string that is no number.
Num(n) == [t |-> "number", n |-> n]
Str(x) == [t |-> "string", s |-> x]

\* Number(v) > 0, for the values a delay takes: false for NaN.
NumberIsPositive(v) == v.t = "number" /\ v.n > 0

\* a ?? b ?? c over optional members: the first object that has the key.
Coalesce3(a, b, k, c) == IF Has(a, k) THEN a[k] ELSE IF Has(b, k) THEN b[k] ELSE c

\* Init configs of the docker actor (config.config).
DockerConfigs ==
    { n @@ c @@ p :
        n \in {Empty, "cluster_name" :> "prod"},
        c \in {Empty, "container_name" :> "cache"},
        p \in {Empty, "config_path" :> "/etc/kind.yaml"} }
    \cup { "timeout" :> 1000, "timeout" :> 0,
           ("cluster_name" :> "prod") @@ ("container_name" :> "cache") @@ ("timeout" :> 1000) }

\* Route delivery configs and event payloads handed to deliver: every
\* action source, every link of each name chain, every delay source.
DockerRouteConfigs ==
    { [x \in {} |-> x] }
    \cup { "action" :> a : a \in VALID_ACTIONS \cup {"bogus", ""} }
    \cup { ("action" :> a) @@ n @@ p :
             a \in {"cluster.shutdown", "cluster.start"},
             n \in {Empty, "cluster_name" :> "dev"},
             p \in {Empty, "config_path" :> "/route/kind.yaml"} }
    \cup { ("action" :> a) @@ n @@ d :
             a \in {"container.stop", "container.start"},
             n \in {Empty, "container_name" :> "web", "container_name" :> ""},
             d \in {Empty, "delay" :> Num(2), "delay" :> Num(0), "delay" :> Str("soon")} }
    \cup { "delay" :> Num(2), "container_name" :> "web" }

DockerPayloads ==
    { [x \in {} |-> x] }
    \cup { "action" :> a : a \in {"container.stop", "cluster.start", "nope"} }
    \cup { ("action" :> "container.start") @@ ("container_name" :> "db"),
           ("action" :> "cluster.start") @@ ("cluster_name" :> "stage")
             @@ ("config_path" :> "/event/kind.yaml"),
           ("action" :> "container.stop") @@ ("delay" :> Num(3)),
           ("cluster_name" :> "stage") @@ ("container_name" :> "db") @@ ("delay" :> Num(3)) }

ConcDockerRouteConfigs ==
    { "action" :> "cluster.shutdown",
      ("action" :> "container.stop") @@ ("container_name" :> "web") @@ ("delay" :> Num(2)),
      "action" :> "container.start" }

ConcDockerPayloads == { Empty }

ConcDockerExecOutcomes == { [ok |-> TRUE], [ok |-> FALSE, error |-> "exit 1"] }

ConcDockerConfigs == { Empty, ("container_name" :> "cache") @@ ("timeout" :> 1000) }

\* How a kind/docker command ends: it succeeds, or execFn rejects (non-zero
\* exit, missing binary, timeout).
DockerExecOutcomes ==
    { [ok |-> TRUE] } \cup { [ok |-> FALSE, error |-> e] : e \in {"exit 1", "ETIMEDOUT"} }

\* Field initialisers of the class.
DockerConstructed ==
    [ clusterName |-> Undef, containerName |-> Undef, configPath |-> Undef,
      timeout |-> DOCKER_DEFAULT_TIMEOUT ]

\* init: the three names are assigned as given (undefined when absent); the
\* timeout only when the configured one is truthy.
DockerInit(cfg) ==
    /\ docker' =
         [ clusterName   |-> IF Has(cfg, "cluster_name") THEN cfg["cluster_name"] ELSE Undef,
           containerName |-> IF Has(cfg, "container_name") THEN cfg["container_name"] ELSE Undef,
           configPath    |-> IF Has(cfg, "config_path") THEN cfg["config_path"] ELSE Undef,
           timeout       |-> IF Has(cfg, "timeout") /\ cfg["timeout"] # 0
                               THEN cfg["timeout"] ELSE docker.timeout ]
    /\ UNCHANGED <<claw, deliveries>>
    /\ UNCHANGED <<gateVars, sourceVars, cliVars>>

\* routeConfig.action ?? event.payload.action
DockerAction(payload, rc) == Coalesce3(rc, payload, "action", Undef)

\* Number(routeConfig.delay ?? event.payload.delay ?? 0) > 0
DockerDelays(payload, rc) == NumberIsPositive(Coalesce3(rc, payload, "delay", Num(0)))

resolveClusterName(d, payload, rc) ==
    Coalesce3(rc, payload, "cluster_name",
              IF d.clusterName # Undef THEN d.clusterName ELSE "kind")

\* A resolution that falls back to a fixed name when none is configured.
resolveContainerNameOrDefault(d, payload, rc) ==
    Coalesce3(rc, payload, "container_name",
              IF d.containerName # Undef THEN d.containerName ELSE "orgloop")

resolveContainerName(d, payload, rc) ==
    Coalesce3(rc, payload, "container_name", d.containerName)

\* The execFn call of each action method; "none" when the method returns
\* rejected before calling it.
DockerCommand(d, action, payload, rc) ==
    CASE action = "cluster.shutdown" ->
           [cmd |-> "kind",
            args |-> <<"delete", "cluster", "--name", resolveClusterName(d, payload, rc)>>,
            timeout |-> d.timeout]
      [] action = "cluster.start" ->
           [cmd |-> "kind",
            args |-> <<"create", "cluster", "--name", resolveClusterName(d, payload, rc)>>
                     \o (IF Truthy(Coalesce3(rc, payload, "config_path", d.configPath))
                           THEN <<"--config", Coalesce3(rc, payload, "config_path", d.configPath)>>
                           ELSE <<>>),
            timeout |-> d.timeout]
      [] action = "container.stop" ->
           IF ~Truthy(resolveContainerName(d, payload, rc)) THEN [cmd |-> "none"]
           ELSE [cmd |-> "docker",
                 args |-> <<"stop", resolveContainerName(d, payload, rc)>>,
                 timeout |-> d.timeout]
      [] action = "container.start" ->
           IF ~Truthy(resolveContainerName(d, payload, rc)) THEN [cmd |-> "none"]
           ELSE [cmd |-> "docker",
                 args |-> <<"start", resolveContainerName(d, payload, rc)>>,
                 timeout |-> d.timeout]

\* A returned deliver call.
DockerReturned(payload, rc, commands, result) ==
    [target |-> "docker", pc |-> "returned", payload |-> payload, rc |-> rc,
     commands |-> commands, result |-> result]

\* deliver from the switch to the await of execFn (or to an early return).
DockerDispatch(d, payload, rc) ==
    LET command == DockerCommand(d, DockerAction(payload, rc), payload, rc)
    IN IF command.cmd = "none"
         THEN DockerReturned(payload, rc, <<>>,
                [status |-> "rejected",
                 error |-> DockerAction(payload, rc) \o " requires a container_name"])
         ELSE [target |-> "docker", pc |-> "executing", payload |-> payload, rc |-> rc,
               commands |-> <<command>>]

\* deliver up to its first await or return.
DockerBegin(d, payload, rc) ==
    IF ~Truthy(DockerAction(payload, rc)) \/ DockerAction(payload, rc) \notin VALID_ACTIONS
      THEN DockerReturned(payload, rc, <<>>,
             [status |-> "rejected", error |-> "Invalid or missing action"])
    ELSE IF DockerDelays(payload, rc)
      THEN [target |-> "docker", pc |-> "delaying", payload |-> payload, rc |-> rc]
    ELSE DockerDispatch(d, payload, rc)

\* A deliver without the catch: a failed command is reported delivered.
DockerSettleNoCatch(frame, outcome) ==
    DockerReturned(frame.payload, frame.rc, frame.commands,
                   [status |-> "delivered", exec |-> outcome])

\* deliver from the await of execFn on: delivered, or the catch.
DockerSettle(frame, outcome) ==
    DockerReturned(frame.payload, frame.rc, frame.commands,
      IF outcome.ok THEN [status |-> "delivered", exec |-> outcome]
      ELSE [status |-> "error", error |-> outcome.error, exec |-> outcome])

\* A caller starts a call when it has none of its own.
CallerFree(c) == deliveries[c].pc = "idle"

\* The caller takes the DeliveryResult of its returned call.
DeliverResultTaken(c) ==
    /\ deliveries[c].pc = "returned"
    /\ deliveries' = [deliveries EXCEPT ![c] = [pc |-> "idle"]]
    /\ UNCHANGED <<docker, claw>>
    /\ UNCHANGED <<gateVars, sourceVars, cliVars>>

\* The locals of the latest call in flight at the same await, as if event
\* and routeConfig were kept in fields of the shared instance.
FrameOfShared(c) ==
    deliveries[CHOOSE d \in Callers :
                 /\ deliveries[d].pc = deliveries[c].pc
                 /\ deliveries[d].target = deliveries[c].target
                 /\ \A e \in Callers :
                      (/\ deliveries[e].pc = deliveries[c].pc
                       /\ deliveries[e].target = deliveries[c].target) => e <= d]

\* The locals of caller c's call in flight (event, routeConfig, what it
\* has executed): each call has its own.
FrameOf(c) == deliveries[c]

DockerDeliverStart(c, payload, rc) ==
    /\ CallerFree(c)
    /\ deliveries' = [deliveries EXCEPT ![c] = DockerBegin(docker, payload, rc)]
    /\ UNCHANGED <<docker, claw>>
    /\ UNCHANGED <<gateVars, sourceVars, cliVars>>

DockerDelayElapsed(c) ==
    /\ deliveries[c].pc = "delaying"
    /\ deliveries' = [deliveries EXCEPT ![c] =
                        DockerDispatch(docker, FrameOf(c).payload, FrameOf(c).rc)]
    /\ UNCHANGED <<docker, claw>>
    /\ UNCHANGED <<gateVars, sourceVars, cliVars>>

DockerExecSettles(c, outcome) ==
    /\ deliveries[c].pc = "executing"
    /\ deliveries' = [deliveries EXCEPT ![c] = DockerSettle(FrameOf(c), outcome)]
    /\ UNCHANGED <<docker, claw>>
    /\ UNCHANGED <<gateVars, sourceVars, cliVars>>

-----------------------------------------------------------------------------
(* OpenClawTarget                                                          *)

CLAW_DEFAULT_BASE_URL == "http://127.0.0.1:18789"

\* process.env, as far as the configs below refer to it.
ProcessEnv == "OPENCLAW_TOKEN" :> "s3cret"

\* The variable a value of the form ${NAME} refers to; Undef for any other
\* value (the regular expression of resolveEnvVar).
EnvReference(value) ==
    CASE value = "${OPENCLAW_TOKEN}" -> "OPENCLAW_TOKEN"
      [] value = "${MISSING_TOKEN}" -> "MISSING_TOKEN"
      [] OTHER -> Undef

\* resolveEnvVar: the variable's value, the value itself when it is no
\* reference, [threw] when the variable is unset or empty.
resolveEnvVar(value) ==
    IF EnvReference(value) = Undef THEN [threw |-> FALSE, value |-> value]
    ELSE IF Has(ProcessEnv, EnvReference(value)) /\ ProcessEnv[EnvReference(value)] # ""
      THEN [threw |-> FALSE, value |-> ProcessEnv[EnvReference(value)]]
    ELSE [threw |-> TRUE]

\* Init configs of the openclaw actor (config.config).
ClawConfigs ==
    { Empty,
      "base_url" :> "http://claw.internal:9000",
      "default_channel" :> "general",
      "auth_token_env" :> "${OPENCLAW_TOKEN}",
      ("auth_token_env" :> "${MISSING_TOKEN}") @@ ("agent_id" :> "other-agent"),
      ("base_url" :> "http://claw.internal:9000") @@ ("agent_id" :> "my-agent")
        @@ ("default_channel" :> "general") @@ ("default_to" :> "team-lead")
        @@ ("auth_token_env" :> "literal-token") }

ConcClawConfigs ==
    { Empty, ("base_url" :> "http://claw.internal:9000") @@ ("default_channel" :> "general") }

\* Events delivered to OpenClaw.
ClawEvents ==
    { [ source |-> "github", type |-> "resource.changed",
        provenance |-> ("platform" :> "github") @@ ("platform_event" :> "pull_request.merged")
                         @@ ("author" :> "alice") @@ ("url" :> "https://github.com/o/r/pull/42"),
        payload |-> ("pr_number" :> "42") @@ ("action" :> "merged") ],
      [ source |-> "cron", type |-> "message.received",
        provenance |-> "platform" :> "cron",
        payload |-> Empty ] }

\* A {{dot.path}} placeholder of a session key template; a template is the
\* sequence of its literal pieces and placeholders.
Placeholder(path) == [path |-> path]
Literal(text) == [text |-> text]

ClawRouteConfigs ==
    { Empty,
      "channel" :> "engineering",
      "session_key" :> <<Literal("orgloop:"), Placeholder(<<"source">>), Literal(":"),
                         Placeholder(<<"payload", "pr_number">>)>>,
      ("session_key" :> <<Literal("hook:"), Placeholder(<<"provenance", "author">>),
                          Literal(":"), Placeholder(<<"source", "name">>)>>)
        @@ ("wake_mode" :> "next-heartbeat") @@ ("deliver" :> TRUE)
        @@ ("channel" :> "engineering") @@ ("to" :> "alice")
        @@ ("launch_prompt" :> "Review this PR") }

\* <<event, route config>> pairs delivered concurrently.
ConcClawInputs ==
    { <<[ source |-> "cron", type |-> "message.received",
          provenance |-> "platform" :> "cron", payload |-> Empty ],
        Empty>>,
      <<[ source |-> "github", type |-> "resource.changed",
          provenance |-> ("platform" :> "github") @@ ("author" :> "alice"),
          payload |-> "pr_number" :> "42" ],
        ("session_key" :> <<Literal("orgloop:"), Placeholder(<<"payload", "pr_number">>)>>)
          @@ ("channel" :> "engineering")>> }

\* How fetch ends: it rejects (connection refused, DNS, abort), or resolves
\* with a response of some status.
HttpStatuses == {200, 201, 204, 299, 301, 304, 400, 401, 404, 422, 429, 499, 500, 502, 503, 599}

FetchOutcomes ==
    { [kind |-> "threw", error |-> "ECONNREFUSED"] }
    \cup { [kind |-> "response", status |-> n] : n \in HttpStatuses }

ConcFetchOutcomes ==
    { [kind |-> "threw", error |-> "ECONNREFUSED"] }
    \cup { [kind |-> "response", status |-> n] : n \in {200, 503} }

\* Field initialisers of the class.
ClawConstructed ==
    [ baseUrl |-> CLAW_DEFAULT_BASE_URL, authToken |-> Undef, agentId |-> Undef,
      defaultChannel |-> Undef, defaultTo |-> Undef ]

\* init: four fields assigned first; then the token, when one is configured,
\* unless resolving it throws.
ClawInit(cfg) ==
    /\ claw' =
         [ baseUrl        |-> IF Has(cfg, "base_url") THEN cfg["base_url"]
                                ELSE CLAW_DEFAULT_BASE_URL,
           agentId        |-> IF Has(cfg, "agent_id") THEN cfg["agent_id"] ELSE Undef,
           defaultChannel |-> IF Has(cfg, "default_channel") THEN cfg["default_channel"]
                                ELSE Undef,
           defaultTo      |-> IF Has(cfg, "default_to") THEN cfg["default_to"] ELSE Undef,
           authToken      |-> IF Has(cfg, "auth_token_env") /\ Truthy(cfg["auth_token_env"])
                                   /\ ~resolveEnvVar(cfg["auth_token_env"]).threw
                                THEN resolveEnvVar(cfg["auth_token_env"]).value
                                ELSE claw.authToken ]
    /\ UNCHANGED <<docker, deliveries>>
    /\ UNCHANGED <<gateVars, sourceVars, cliVars>>

\* resolvePath for the paths a template may name: a top-level field, or a
\* member of provenance or payload; undefined when a segment is missing or
\* the path goes through a value that is no object.
resolvePath(event, path) ==
    IF Len(path) = 1
      THEN IF path[1] \in {"source", "type"} THEN event[path[1]] ELSE Undef
    ELSE IF Len(path) = 2 /\ path[1] \in {"provenance", "payload"}
      THEN IF Has(event[path[1]], path[2]) THEN event[path[1]][path[2]] ELSE Undef
    ELSE Undef

\* interpolateTemplate: each placeholder replaced by the value at its path,
\* by "unknown" when there is none.
RECURSIVE interpolateTemplate(_, _)
interpolateTemplate(template, event) ==
    IF template = <<>> THEN ""
    ELSE (IF Has(Head(template), "text") THEN Head(template).text
          ELSE IF resolvePath(event, Head(template).path) \in {Undef, Null} THEN "unknown"
          ELSE resolvePath(event, Head(template).path))
         \o interpolateTemplate(Tail(template), event)

\* buildMessage: the header line, the context entries (provenance minus the
\* header fields), the payload entries and the instructions.
buildMessage(event, rc) ==
    [ header  |-> "[" \o event.source \o "] " \o event.type
                  \o (IF Has(event.provenance, "platform_event")
                        THEN " (" \o event.provenance["platform_event"] \o ")" ELSE "")
                  \o (IF Has(event.provenance, "author")
                        THEN " by " \o event.provenance["author"] ELSE ""),
      context |-> { <<k, event.provenance[k]>> :
                      k \in DOMAIN event.provenance
                            \ {"platform", "platform_event", "author", "author_type"} },
      payload |-> { <<k, event.payload[k]>> : k \in DOMAIN event.payload },
      instructions |-> IF Has(rc, "launch_prompt") THEN rc["launch_prompt"] ELSE Undef ]

\* The request deliver sends: url, headers and body.
ClawRequest(w, event, rc) ==
    [ method |-> "POST",
      url |-> w.baseUrl \o "/hooks/agent",
      authorization |-> IF Truthy(w.authToken) THEN "Bearer " \o w.authToken ELSE Undef,
      body |->
        [ message    |-> buildMessage(event, rc),
          sessionKey |-> interpolateTemplate(
                           IF Has(rc, "session_key") THEN rc["session_key"]
                           ELSE <<Literal("orgloop:" \o event.source \o ":" \o event.type)>>,
                           event),
          agentId    |-> w.agentId,
          wakeMode   |-> IF Has(rc, "wake_mode") THEN rc["wake_mode"] ELSE "now",
          deliver    |-> IF Has(rc, "deliver") THEN rc["deliver"] ELSE FALSE,
          channel    |-> IF Has(rc, "channel") THEN rc["channel"] ELSE w.defaultChannel,
          to         |-> IF Has(rc, "to") THEN rc["to"] ELSE w.defaultTo ] ]

\* A classification that tests the 4xx range before 429.
ClawResultRangeFirst(outcome) ==
    IF outcome.kind = "threw" THEN [status |-> "error", error |-> outcome.error]
    ELSE IF outcome.status >= 200 /\ outcome.status <= 299 THEN [status |-> "delivered"]
    ELSE IF outcome.status >= 400 /\ outcome.status < 500
      THEN [status |-> "rejected", error |-> "OpenClaw rejected"]
    ELSE IF outcome.status = 429
      THEN [status |-> "error", error |-> "OpenClaw rate limited (429)"]
    ELSE [status |-> "error", error |-> "OpenClaw error"]

\* The DeliveryResult for the way fetch ended (response.ok is 200..299).
ClawResult(outcome) ==
    IF outcome.kind = "threw" THEN [status |-> "error", error |-> outcome.error]
    ELSE IF outcome.status >= 200 /\ outcome.status <= 299 THEN [status |-> "delivered"]
    ELSE IF outcome.status = 429
      THEN [status |-> "error", error |-> "OpenClaw rate limited (429)"]
    ELSE IF outcome.status >= 400 /\ outcome.status < 500
      THEN [status |-> "rejected", error |-> "OpenClaw rejected"]
    ELSE [status |-> "error", error |-> "OpenClaw error"]

\* deliver up to the await of fetch.
ClawBegin(w, event, rc) ==
    [target |-> "openclaw", pc |-> "fetching", event |-> event, rc |-> rc,
     requests |-> <<ClawRequest(w, event, rc)>>]

\* A deliver that posts once more after a 429 or 5xx response.
ClawSettleRetryOnce(w, frame, outcome) ==
    IF /\ outcome.kind = "response"
       /\ (outcome.status = 429 \/ outcome.status >= 500)
       /\ Len(frame.requests) < 2
      THEN [frame EXCEPT !.requests = Append(@, ClawRequest(w, frame.event, frame.rc))]
      ELSE [target |-> "openclaw", pc |-> "returned", event |-> frame.event,
            rc |-> frame.rc, requests |-> frame.requests, response |-> outcome,
            result |-> ClawResult(outcome)]

\* deliver from the await of fetch on: the result for this response.
ClawSettle(w, frame, outcome) ==
    [target |-> "openclaw", pc |-> "returned", event |-> frame.event, rc |-> frame.rc,
     requests |-> frame.requests, response |-> outcome, result |-> ClawResult(outcome)]

ClawDeliverStart(c, event, rc) ==
    /\ CallerFree(c)
    /\ deliveries' = [deliveries EXCEPT ![c] = ClawBegin(claw, event, rc)]
    /\ UNCHANGED <<docker, claw>>
    /\ UNCHANGED <<gateVars, sourceVars, cliVars>>

ClawFetchSettles(c, outcome) ==
    /\ deliveries[c].pc = "fetching"
    /\ deliveries' = [deliveries EXCEPT ![c] = ClawSettle(claw, FrameOf(c), outcome)]
    /\ UNCHANGED <<docker, claw>>
    /\ UNCHANGED <<gateVars, sourceVars, cliVars>>

TargetsInitState ==
    /\ docker = DockerConstructed
    /\ claw = ClawConstructed
    /\ deliveries = [c \in Callers |-> [pc |-> "idle"]]

NextDocker ==
    \/ \E cfg \in DockerConfigs : DockerInit(cfg)
    \/ \E payload \in DockerPayloads, rc \in DockerRouteConfigs :
         DockerDeliverStart(1, payload, rc)
    \/ DockerDelayElapsed(1)
    \/ \E outcome \in DockerExecOutcomes : DockerExecSettles(1, outcome)
    \/ DeliverResultTaken(1)

NextOpenClaw ==
    \/ \E cfg \in ClawConfigs : ClawInit(cfg)
    \/ \E event \in ClawEvents, rc \in ClawRouteConfigs : ClawDeliverStart(1, event, rc)
    \/ \E outcome \in FetchOutcomes : ClawFetchSettles(1, outcome)
    \/ DeliverResultTaken(1)

\* Concurrent callers of deliver on the one DockerTarget and the one
\* OpenClawTarget instance.
NextTargetsConc ==
    \/ \E cfg \in ConcDockerConfigs : DockerInit(cfg)
    \/ \E cfg \in ConcClawConfigs : ClawInit(cfg)
    \/ \E c \in Callers, payload \in ConcDockerPayloads, rc \in ConcDockerRouteConfigs :
         DockerDeliverStart(c, payload, rc)
    \/ \E c \in Callers : DockerDelayElapsed(c)
    \/ \E c \in Callers, outcome \in ConcDockerExecOutcomes : DockerExecSettles(c, outcome)
    \/ \E c \in Callers, in \in ConcClawInputs : ClawDeliverStart(c, in[1], in[2])
    \/ \E c \in Callers, outcome \in ConcFetchOutcomes : ClawFetchSettles(c, outcome)
    \/ \E c \in Callers : DeliverResultTaken(c)

-----------------------------------------------------------------------------
(* loadDotEnv                                                              *)

\* Bound of the .env model.
MaxEnvEntries == 2      \* most KEY=VALUE entries parseEnvFile yields

EnvKeys == {"API_KEY", "TOKEN"}

\* Values the shell gives a variable, the empty string among them.
ShellValues == {"", "from-shell"}

\* The [key, value] entries parseEnvFile(content) yields, in iteration order.
DotEnvEntries == SeqUpTo(EnvKeys \X {"", "from-file", "other"}, MaxEnvEntries)

\* How readFile(dotenvPath) settles: it rejects (no such file, or
\* unreadable) or resolves with a content that parses to entries.
ReadFileOutcomes ==
    { [kind |-> "error", code |-> c] : c \in {"ENOENT", "EACCES"} }
    \cup { [kind |-> "content", vars |-> v] : v \in DotEnvEntries }

\* A loop body that takes an empty variable for an unset one.
DotEnvEntryFalsy(acc, entry) ==
    IF ~Has(acc.env, entry[1]) \/ acc.env[entry[1]] = ""
      THEN [env |-> (entry[1] :> entry[2]) @@ acc.env,
            loaded |-> Append(acc.loaded, entry[1])]
      ELSE acc

\* One iteration of the loop: process.env[key] === undefined guards the
\* assignment and the push.
DotEnvEntry(acc, entry) ==
    IF ~Has(acc.env, entry[1])
      THEN [env |-> (entry[1] :> entry[2]) @@ acc.env,
            loaded |-> Append(acc.loaded, entry[1])]
      ELSE acc

\* The loop over the entries, from process.env and loaded as acc holds them.
RECURSIVE DotEnvLoop(_, _)
DotEnvLoop(acc, entries) ==
    IF entries = <<>> THEN acc
    ELSE DotEnvLoop(DotEnvEntry(acc, Head(entries)), Tail(entries))

\* loadDotEnv up to the await of readFile.
LoadDotEnvStart ==
    /\ dotenvCall.pc = "idle"
    /\ dotenvCall' = [pc |-> "reading"]
    /\ UNCHANGED <<env, dotenvReturn, resolveCall, resolveReturn>>
    /\ UNCHANGED <<gateVars, sourceVars, targetVars>>

\* loadDotEnv from the await on: the catch returns [], otherwise the
\* entries are applied to process.env and the loaded keys returned.
LoadDotEnvSettles(outcome) ==
    /\ dotenvCall.pc = "reading"
    /\ dotenvCall' = [pc |-> "idle"]
    /\ UNCHANGED <<resolveCall, resolveReturn>>
    /\ IF outcome.kind = "error"
         THEN /\ dotenvReturn' = [kind |-> "returned", read |-> outcome, loaded |-> <<>>]
              /\ UNCHANGED env
         ELSE LET done == DotEnvLoop([env |-> env, loaded |-> <<>>], outcome.vars)
              IN /\ dotenvReturn' = [kind |-> "returned", read |-> outcome,
                                      loaded |-> done.loaded]
                 /\ env' = done.env
    /\ UNCHANGED <<gateVars, sourceVars, targetVars>>

\* The shell, or other code of the process, sets or unsets a variable.
EnvAssigned(key, value) ==
    /\ env' = (key :> value) @@ env
    /\ UNCHANGED <<dotenvCall, dotenvReturn, resolveCall, resolveReturn>>
    /\ UNCHANGED <<gateVars, sourceVars, targetVars>>

EnvDeleted(key) ==
    /\ Has(env, key)
    /\ env' = [k \in DOMAIN env \ {key} |-> env[k]]
    /\ UNCHANGED <<dotenvCall, dotenvReturn, resolveCall, resolveReturn>>
    /\ UNCHANGED <<gateVars, sourceVars, targetVars>>

-----------------------------------------------------------------------------
(* resolveConnectors                                                       *)

\* Bounds of the resolver model.
MaxSources == 2         \* most sources a config declares
MaxActors == 1          \* most actors a config declares

Packages == {"pkgA", "pkgB"}

\* config.sources and config.actors: declarations with an id and the
\* connector package they name.
ResolverConfigs ==
    [ sources : SeqUpTo([id : {"src1", "src2"}, connector : Packages], MaxSources),
      actors  : SeqUpTo([id : {"act1", "act2"}, connector : Packages], MaxActors) ]

\* The registrations a package's default export may return: with or
\* without a source class, with or without a target class.
Registrations(package) ==
    { s @@ t : s \in {Empty, "source" :> [package |-> package, class |-> "Source"]},
               t \in {Empty, "target" :> [package |-> package, class |-> "Target"]} }

\* How importFn(package) settles: it rejects, or resolves with a module
\* whose default export is no function, or is a registration function.
ImportOutcomes(package) ==
    { [kind |-> "threw", message |-> "Cannot find module"] }
    \cup { [kind |-> "module", default |-> "object"] }
    \cup { [kind |-> "module", default |-> "function", registration |-> r] :
             r \in Registrations(package) }

\* Set.prototype.add over the connector of each declaration, in order.
RECURSIVE AddPackages(_, _)
AddPackages(acc, decls) ==
    IF decls = <<>> THEN acc
    ELSE AddPackages(IF Includes(acc, Head(decls).connector)
                       THEN acc ELSE Append(acc, Head(decls).connector),
                     Tail(decls))

\* allPackages, in the iteration order of the Set.
AllPackages(config) == AddPackages(AddPackages(<<>>, config.sources), config.actors)

\* The rest of the import loop's iteration: packages already in packageMap
\* are skipped.
RECURSIVE NextPending(_, _)
NextPending(rest, packageMap) ==
    IF rest = <<>> THEN <<>>
    ELSE IF Has(packageMap, Head(rest)) THEN NextPending(Tail(rest), packageMap)
    ELSE rest

\* A `new` that hands every declaration of a package the same object.
NewInstanceShared(class, news) == [class |-> class, serial |-> 0]

\* new reg.source() / new reg.target(): a new object of the class; news
\* counts the objects this call has created so far.
NewInstance(class, news) == [class |-> class, serial |-> news + 1]

NoError == [type |-> "none"]

\* One of the two instantiation loops (kind is "source" or "target"), from
\* acc = [map, news, error]; a throw ends the loop.
RECURSIVE Instantiate(_, _, _, _)
Instantiate(kind, packageMap, decls, acc) ==
    IF decls = <<>> THEN acc
    ELSE LET d == Head(decls)
         IN IF ~Has(packageMap, d.connector)
              THEN Instantiate(kind, packageMap, Tail(decls), acc)
            ELSE IF ~Has(packageMap[d.connector], kind)
              THEN [acc EXCEPT !.error =
                      [type |-> "no " \o kind, connector |-> d.connector, id |-> d.id]]
            ELSE Instantiate(kind, packageMap, Tail(decls),
                   [acc EXCEPT
                      !.map = MapSet(@, [id |-> d.id,
                                         instance |-> NewInstance(packageMap[d.connector][kind],
                                                                  acc.news)]),
                      !.news = @ + 1])

\* resolveConnectors from the end of the import loop on: instantiate the
\* sources, then the actors, and return both maps, or throw.
Finish(frame, packageMap) ==
    LET s == Instantiate("source", packageMap, frame.config.sources,
                         [map |-> <<>>, news |-> 0, error |-> NoError])
        a == Instantiate("target", packageMap, frame.config.actors,
                         [map |-> <<>>, news |-> s.news, error |-> NoError])
    IN IF s.error # NoError
         THEN [kind |-> "threw", config |-> frame.config, imports |-> frame.imports,
               outcomes |-> frame.outcomes, news |-> s.news, error |-> s.error]
       ELSE IF a.error # NoError
         THEN [kind |-> "threw", config |-> frame.config, imports |-> frame.imports,
               outcomes |-> frame.outcomes, news |-> a.news, error |-> a.error]
       ELSE [kind |-> "returned", config |-> frame.config, imports |-> frame.imports,
             outcomes |-> frame.outcomes, news |-> a.news,
             sources |-> s.map, actors |-> a.map]

\* The import loop once allPackages holds `pending` and packageMap is as
\* given: suspend at the next importFn, or finish when nothing is left.
ImportNext(frame, pending, packageMap) ==
    IF NextPending(pending, packageMap) = <<>>
      THEN [done |-> TRUE, ret |-> Finish(frame, packageMap)]
      ELSE [done |-> FALSE,
            call |-> [pc |-> "importing", config |-> frame.config,
                      pending |-> NextPending(pending, packageMap),
                      packageMap |-> packageMap,
                      imports |-> Append(frame.imports,
                                         Head(NextPending(pending, packageMap))),
                      outcomes |-> frame.outcomes]]

\* An import loop that skips a package it cannot import.
AfterImportBestEffort(frame, outcome) ==
    LET package == Head(frame.pending)
        settled == [frame EXCEPT !.outcomes = Append(@, outcome)]
    IN IF outcome.kind = "threw" \/ outcome.default # "function"
         THEN ImportNext(settled, Tail(frame.pending), frame.packageMap)
         ELSE ImportNext(settled, Tail(frame.pending),
                         (package :> outcome.registration) @@ frame.packageMap)

\* The import loop from a settled importFn(package) on: throw when the
\* import rejected or the default export is no function, otherwise record
\* the registration and go on.
AfterImport(frame, outcome) ==
    LET package == Head(frame.pending)
        settled == [frame EXCEPT !.outcomes = Append(@, outcome)]
        threw(error) == [done |-> TRUE,
                         ret |-> [kind |-> "threw", config |-> frame.config,
                                  imports |-> frame.imports,
                                  outcomes |-> settled.outcomes,
                                  news |-> 0, error |-> error]]
    IN IF outcome.kind = "threw"
         THEN threw([type |-> "import failed", package |-> package,
                     cause |-> outcome.message, hint |-> [npmInstall |-> package]])
       ELSE IF outcome.default # "function"
         THEN threw([type |-> "no default function", package |-> package])
       ELSE ImportNext(settled, Tail(frame.pending),
                       (package :> outcome.registration) @@ frame.packageMap)

\* resolveConnectors up to its first await (or to its end, when the config
\* names no package).
ResolveStart(config) ==
    /\ resolveCall.pc = "idle"
    /\ resolveReturn.kind = "none"
    /\ LET step == ImportNext([config |-> config, imports |-> <<>>, outcomes |-> <<>>],
                              AllPackages(config), Empty)
       IN IF step.done
            THEN /\ resolveReturn' = step.ret
                 /\ UNCHANGED resolveCall
            ELSE /\ resolveCall' = step.call
                 /\ UNCHANGED resolveReturn
    /\ UNCHANGED <<env, dotenvCall, dotenvReturn>>
    /\ UNCHANGED <<gateVars, sourceVars, targetVars>>

\* resolveConnectors from a settled importFn to the next await or the end.
ResolveImportSettles ==
    /\ resolveCall.pc = "importing"
    /\ \E outcome \in ImportOutcomes(Head(resolveCall.pending)) :
         LET step == AfterImport(resolveCall, outcome)
         IN IF step.done
              THEN /\ resolveReturn' = step.ret
                   /\ resolveCall' = [pc |-> "idle"]
              ELSE /\ resolveCall' = step.call
                   /\ UNCHANGED resolveReturn
    /\ UNCHANGED <<env, dotenvCall, dotenvReturn>>
    /\ UNCHANGED <<gateVars, sourceVars, targetVars>>

\* The caller has taken the maps, or caught the error, of its call.
ResolveResultTaken ==
    /\ resolveReturn.kind # "none"
    /\ resolveReturn' = [kind |-> "none"]
    /\ UNCHANGED <<env, dotenvCall, dotenvReturn, resolveCall>>
    /\ UNCHANGED <<gateVars, sourceVars, targetVars>>

NextResolve ==
    \/ \E config \in ResolverConfigs : ResolveStart(config)
    \/ ResolveImportSettles
    \/ ResolveResultTaken

CliInitState ==
    /\ env = Empty
    /\ dotenvCall = [pc |-> "idle"]
    /\ dotenvReturn = [kind |-> "none"]
    /\ resolveCall = [pc |-> "idle"]
    /\ resolveReturn = [kind |-> "none"]

NextDotEnv ==
    \/ LoadDotEnvStart
    \/ \E outcome \in ReadFileOutcomes : LoadDotEnvSettles(outcome)
    \/ \E key \in EnvKeys, value \in ShellValues : EnvAssigned(key, value)
    \/ \E key \in EnvKeys : EnvDeleted(key)

InitAll == GateInitState /\ SourceInitState /\ TargetsInitState /\ CliInitState

SpecGate == InitAll /\ [][NextGate]_vars
SpecGateConc == InitAll /\ [][NextGateConc]_vars
SpecSource == InitAll /\ [][NextSource]_vars
SpecDocker == InitAll /\ [][NextDocker]_vars
SpecOpenClaw == InitAll /\ [][NextOpenClaw]_vars
SpecTargetsConc == InitAll /\ [][NextTargetsConc]_vars
SpecDotEnv == InitAll /\ [][NextDotEnv]_vars
SpecResolve == InitAll /\ [][NextResolve]_vars

-----------------------------------------------------------------------------
(* Properties of AgentGateTransform                                        *)

\* The step in which caller c's execute call returns.
ExecuteReturns(c) == gateCalls[c].pc = "awaiting" /\ gateCalls'[c].pc = "idle"

\* The config the instance was last initialised with ({} before any init).
GateConfigured == IF gateInitResult.kind = "ok" THEN gateInitResult.config ELSE Empty

\* The configured active statuses: the configured list, else the default.
ConfiguredStatuses ==
    IF Has(GateConfigured, "active_statuses")
      THEN GateConfigured["active_statuses"] ELSE <<"running">>

\* The configured adapter filter, when one is set (a non-empty string).
AdapterFilterSet ==
    Has(GateConfigured, "adapter_filter") /\ GateConfigured["adapter_filter"] # ""

\* The listing call failed: the process failed or its output did not parse.
ListingFailed(raw) == raw.kind = "error" \/ raw.json \in {"invalid", "null"}

\* The session list the call obtained.
ListingObtained(raw) ==
    IF raw.json = "array" THEN raw.items
    ELSE IF Has(raw, "sessions") THEN raw.sessions ELSE <<>>

\* Some listed session counts as active under the configuration.
GateClosed(raw) ==
    \E i \in 1..Len(ListingObtained(raw)) :
        /\ \E j \in 1..Len(ConfiguredStatuses) :
              ConfiguredStatuses[j] = ListingObtained(raw)[i].status
        /\ AdapterFilterSet =>
              ListingObtained(raw)[i].adapter = GateConfigured["adapter_filter"]

\* C1: when the session list is obtained, execute returns null exactly when
\* the list holds a session whose status is among the configured
\* active_statuses (default <<"running">>, replaced by a configured list)
\* and whose adapter equals adapter_filter if one is set (a non-empty
\* string); otherwise it returns the input event.
C1_GateDropsIffActiveSession ==
    [][\A c \in Callers :
         (ExecuteReturns(c) /\ ~ListingFailed(gateReturn'.raw)) =>
           /\ gateReturn'.call = c
           /\ gateReturn'.result = Null <=> GateClosed(gateReturn'.raw)
           /\ ~GateClosed(gateReturn'.raw) => gateReturn'.result = gateCalls[c].event]_vars

\* C1 witness: with an adapter filter and custom statuses configured, one
\* call was dropped on a two-session list whose first session did not match.
C1_Witness ==
    /\ gateReturn.call = 1
    /\ gateReturn.result = Null
    /\ gateReturn.raw.kind = "stdout" /\ gateReturn.raw.json = "array"
    /\ Len(gateReturn.raw.items) = 2
    /\ gateReturn.raw.items[1].adapter = "other-agent"
    /\ gateReturn.raw.items[2].status = "paused"
    /\ gate.adapterFilter = "claude-code"
    /\ gate.activeStatuses = <<"running", "paused">>

\* C2: whenever the listing call fails (binary missing, timeout, output
\* that does not parse), execute returns the input event, never null,
\* whatever the configuration.
C2_GateFailsOpen ==
    [][\A c \in Callers :
         (ExecuteReturns(c) /\ ListingFailed(gateReturn'.raw)) =>
           /\ gateReturn'.call = c
           /\ gateReturn'.result = gateCalls[c].event
           /\ gateReturn'.result # Null]_vars

\* C2 witness: a call whose listing timed out returned its event while a
\* non-default configuration was in force.
C2_Witness ==
    /\ gateReturn.call = 1
    /\ gateReturn.raw.kind = "error" /\ gateReturn.raw.why = "ETIMEDOUT"
    /\ gateReturn.result = "e1"
    /\ gate.adapterFilter = "claude-code"
    /\ gate.activeStatuses = <<>>

\* C8: execute keeps no state between calls: no step of an execute call
\* writes an instance field, and whatever other calls are in flight, a
\* returning call hands back either null or its own event, decided only by
\* its own session list and the configuration, as when it runs alone.
C8_GateReentrant ==
    [][\A c \in Callers :
         /\ gateCalls'[c] # gateCalls[c] => gate' = gate /\ gateInitResult' = gateInitResult
         /\ ExecuteReturns(c) =>
               /\ gateReturn'.call = c
               /\ \A d \in Callers \ {c} : gateCalls'[d] = gateCalls[d]
               /\ gateReturn'.result =
                    IF ListingFailed(gateReturn'.raw) THEN gateCalls[c].event
                    ELSE IF \E i \in 1..Len(ListingObtained(gateReturn'.raw)) :
                              /\ Includes(gate.activeStatuses,
                                          ListingObtained(gateReturn'.raw)[i].status)
                              /\ \/ gate.adapterFilter \in {Undef, ""}
                                 \/ ListingObtained(gateReturn'.raw)[i].adapter
                                      = gate.adapterFilter
                         THEN Null
                    ELSE gateCalls[c].event]_vars

\* C8 witness: caller 1 got its own event back while caller 2, started
\* later with another event, was still awaiting its listing.
C8_Witness ==
    /\ gateReturn.call = 1
    /\ gateReturn.result = "e1"
    /\ gateCalls[2].pc = "awaiting"
    /\ gateCalls[2].event = "e2"

\* The init call that just ran was handed a config with a key outside
\* binary_path, adapter_filter, active_statuses and timeout.
InitWithUnknownKey ==
    /\ gateInitResult' # gateInitResult
    /\ \E k \in DOMAIN gateInitResult'.config :
         k \notin {"binary_path", "adapter_filter", "active_statuses", "timeout"}

\* C12: init with a config holding a key outside binary_path,
\* adapter_filter, active_statuses and timeout throws an error naming
\* exactly the config's keys outside that set, and leaves the binary path,
\* adapter filter, active statuses and timeout as they were configured.
C12_InitRejectsUnknownKeys ==
    [][InitWithUnknownKey =>
         /\ gateInitResult'.kind = "threw"
         /\ gateInitResult'.unknownKeys =
              DOMAIN gateInitResult'.config
                \ {"binary_path", "adapter_filter", "active_statuses", "timeout"}
         /\ gate' = gate]_vars

\* C12 witness: a transform configured with adapter filter claude-code and
\* active status stopped rejected a config carrying unknown_key next to
\* another adapter filter and a timeout, and kept its configuration.
C12_Witness ==
    /\ gateInitResult.kind = "threw"
    /\ gateInitResult.unknownKeys = {"unknown_key"}
    /\ Has(gateInitResult.config, "adapter_filter")
    /\ gate.adapterFilter = "claude-code"
    /\ gate.activeStatuses = <<"stopped">>
    /\ gate.timeoutMs = DEFAULT_TIMEOUT

-----------------------------------------------------------------------------
(* Properties of AgentCtlSource                                            *)

\* The step in which the poll call returns.
PollReturns == pollCall.pc = "awaiting" /\ pollCall'.pc = "idle"

\* The listing of the poll failed: the CLI call errored or timed out, or its
\* output did not parse.
PollListingFailed(r) == r.listing \in {"error", "invalid"}

\* C3: when the listing of a poll fails transiently, poll hands back no new
\* checkpoint: it either throws or returns the checkpoint it returned before.
C3_FailedPollKeepsCheckpoint ==
    [][(PollReturns /\ PollListingFailed(pollReturn')) =>
         \/ pollReturn'.kind = "threw"
         \/ /\ pollReturn.kind = "returned"
            /\ pollReturn'.checkpoint = pollReturn.checkpoint]_vars

\* The events of a poll result that are about session id.
EventsAbout(events, id) == {i \in 1..Len(events) : events[i].session_id = id}

\* The event type the diff owes a listed session, "none" for no event:
\* was is the tracked status ("untracked" for an id not tracked), now the
\* listed status.
OwedEvent(was, now) ==
    IF was = "untracked"
      THEN CASE now \in {"running", "idle"} -> "session.started"
             [] now = "stopped" -> "session.stopped"
             [] now = "error" -> "session.error"
    ELSE IF was = now THEN "none"
    ELSE CASE now = "stopped" -> "session.stopped"
           [] now = "error" -> "session.error"
           [] now = "idle" /\ was = "running" -> "session.idle"
           [] now = "running" -> "session.started"
           [] OTHER -> "none"

TrackedStatus(m, id) == IF MapHas(m, id) THEN MapGet(m, id).status ELSE "untracked"

\* C10: a poll emits, for each session of the current listing (by id, as
\* the Map built from the listing holds it), exactly the event its previous
\* tracked status and its listed status call for: for an untracked id
\* session.started on running or idle, session.stopped on stopped,
\* session.error on error; for a tracked id whose status changed
\* session.stopped, session.error, session.idle (running to idle only) or
\* session.started (became running); and no event otherwise.
C10_PollDiffEvents ==
    [][PollReturns =>
         \A id \in SessionIds :
           MapHas(previousState', id) =>
             LET was  == TrackedStatus(previousState, id)
                 now  == MapGet(previousState', id).status
                 ev   == pollReturn'.events
                 mine == EventsAbout(ev, id)
             IN IF OwedEvent(was, now) = "none"
                  THEN mine = {}
                  ELSE /\ Cardinality(mine) = 1
                       /\ \A i \in mine : /\ ev[i].action = OwedEvent(was, now)
                                          /\ ev[i].status = now]_vars

\* C10 witness: a poll that saw tracked s1 go from running to idle and the
\* untracked s2 running reported session.idle and session.started.
C10_Witness ==
    /\ pollReturn.kind = "returned"
    /\ pollReturn.events =
         << [action |-> "session.idle", session_id |-> "s1", status |-> "idle"],
            [action |-> "session.started", session_id |-> "s2", status |-> "running"] >>
    /\ previousState = << [id |-> "s1", status |-> "idle"],
                          [id |-> "s2", status |-> "running"] >>

\* C11: a poll treats a session that was tracked and is absent from the
\* current listing as stopped: it emits exactly one session.stopped event
\* with status stopped for it when its tracked status was not stopped and
\* no event when it was stopped, and it tracks the session no longer; for an
\* id that is neither tracked nor listed a poll emits nothing.
C11_DisappearedSessionStopped ==
    [][PollReturns =>
         \A id \in SessionIds :
           id \notin pollReturn'.listed =>
             LET was  == TrackedStatus(previousState, id)
                 ev   == pollReturn'.events
                 mine == EventsAbout(ev, id)
             IN /\ ~MapHas(previousState', id)
                /\ IF was \in {"untracked", "stopped"}
                     THEN mine = {}
                     ELSE /\ Cardinality(mine) = 1
                          /\ \A i \in mine : /\ ev[i].action = "session.stopped"
                                             /\ ev[i].status = "stopped"]_vars

\* C11 witness: a poll whose listing held only s2 reported the tracked s1
\* stopped and tracks s2 alone.
C11_Witness ==
    /\ pollReturn.kind = "returned"
    /\ pollReturn.listing = "array"
    /\ pollReturn.events =
         << [action |-> "session.stopped", session_id |-> "s1", status |-> "stopped"] >>
    /\ previousState = << [id |-> "s2", status |-> "running"] >>

-----------------------------------------------------------------------------
(* Properties of DockerTarget                                              *)

IsDockerCall(f) == f.pc # "idle" /\ f.target = "docker"

\* C4: a DockerTarget.deliver call never ends other than by returning a
\* result (a call in flight can always take its next step, and no call ends
\* by throwing) whose status is delivered, rejected or error; a command
\* that fails or times out gives status error carrying that error; and
\* delivered is returned only after exactly one command, which succeeded.
C4_DockerDeliverResult ==
    \A c \in Callers :
      IsDockerCall(deliveries[c]) =>
        LET f == deliveries[c] IN
        /\ f.pc \in {"delaying", "executing", "returned"}
        /\ f.pc = "delaying" => ENABLED DockerDelayElapsed(c)
        /\ f.pc = "executing" =>
             /\ Len(f.commands) = 1
             /\ ENABLED (\E o \in DockerExecOutcomes : DockerExecSettles(c, o))
        /\ f.pc = "returned" =>
             /\ f.result.status \in {"delivered", "rejected", "error"}
             /\ Len(f.commands) <= 1
             /\ (Len(f.commands) = 1 /\ ~f.result.exec.ok) =>
                  /\ f.result.status = "error"
                  /\ f.result.error = f.result.exec.error
             /\ f.result.status = "delivered" =>
                  /\ Len(f.commands) = 1
                  /\ f.result.exec.ok

\* C4 witness: a deliver whose kind command timed out returned status error
\* carrying the timeout.
C4_Witness ==
    /\ IsDockerCall(deliveries[1])
    /\ deliveries[1].pc = "returned"
    /\ deliveries[1].result.status = "error"
    /\ deliveries[1].result.error = "ETIMEDOUT"
    /\ deliveries[1].commands[1].cmd = "kind"

\* The action deliver acts on: the route config's if present, else the
\* event payload's, else missing.
RequestedAction(payload, rc) ==
    IF Has(rc, "action") THEN rc["action"]
    ELSE IF Has(payload, "action") THEN payload["action"]
    ELSE "missing"

\* No container name in the route config, the event payload or the init
\* config.
NoContainerName(payload, rc) ==
    /\ ~Has(rc, "container_name")
    /\ ~Has(payload, "container_name")
    /\ docker.containerName = Undef

\* Caller c's call leaves the code before the switch in this step.
DockerDispatches(c) ==
    /\ deliveries[c].pc \in {"idle", "delaying"}
    /\ deliveries'[c].pc \in {"executing", "returned"}
    /\ deliveries'[c].target = "docker"

\* C5: deliver returns rejected, having executed no command, as soon as it
\* is called with an action (route config, else payload) that is missing or
\* not one of the four valid actions, and, for container.stop and
\* container.start, when the switch is reached with no container name in
\* the route config, the event payload or the init config.
C5_DockerRejects ==
    [][\A c \in Callers :
         /\ ( /\ deliveries[c].pc = "idle"
              /\ IsDockerCall(deliveries'[c])
              /\ RequestedAction(deliveries'[c].payload, deliveries'[c].rc)
                   \notin VALID_ACTIONS )
            => /\ deliveries'[c].pc = "returned"
               /\ deliveries'[c].result.status = "rejected"
               /\ deliveries'[c].commands = <<>>
         /\ ( /\ DockerDispatches(c)
              /\ RequestedAction(deliveries'[c].payload, deliveries'[c].rc)
                   \in {"container.stop", "container.start"}
              /\ NoContainerName(deliveries'[c].payload, deliveries'[c].rc) )
            => /\ deliveries'[c].pc = "returned"
               /\ deliveries'[c].result.status = "rejected"
               /\ deliveries'[c].commands = <<>>]_vars

\* C5 witness: a delayed container.stop with no container name anywhere was
\* rejected without a command.
C5_Witness ==
    /\ IsDockerCall(deliveries[1])
    /\ deliveries[1].pc = "returned"
    /\ deliveries[1].result.status = "rejected"
    /\ deliveries[1].commands = <<>>
    /\ RequestedAction(deliveries[1].payload, deliveries[1].rc) = "container.stop"
    /\ Has(deliveries[1].rc, "delay") /\ deliveries[1].rc["delay"] = Num(2)
    /\ NoContainerName(deliveries[1].payload, deliveries[1].rc)

-----------------------------------------------------------------------------
(* Properties of OpenClawTarget                                            *)

IsClawCall(f) == f.pc # "idle" /\ f.target = "openclaw"

\* C6: OpenClawTarget.deliver reports error when the request itself fails
\* and on 429 and 5xx responses, rejected on the other 4xx responses, and
\* delivered on a 2xx response.
C6_ClawStatusByResponse ==
    \A c \in Callers :
      (IsClawCall(deliveries[c]) /\ deliveries[c].pc = "returned") =>
        LET r == deliveries[c].response
            status == deliveries[c].result.status
        IN /\ r.kind = "threw" => status = "error"
           /\ r.kind = "response" =>
                /\ (r.status >= 200 /\ r.status <= 299) => status = "delivered"
                /\ (r.status = 429 \/ (r.status >= 500 /\ r.status <= 599))
                     => status = "error"
                /\ (r.status >= 400 /\ r.status <= 499 /\ r.status # 429)
                     => status = "rejected"

\* C6 witness: a rate-limited delivery (429) was reported as error.
C6_Witness ==
    /\ IsClawCall(deliveries[1])
    /\ deliveries[1].pc = "returned"
    /\ deliveries[1].response.kind = "response"
    /\ deliveries[1].response.status = 429
    /\ deliveries[1].result.status = "error"

\* C7: every deliver call issues exactly one HTTP POST, to
\* <base_url>/hooks/agent, and returns as soon as that request settles,
\* whatever the response or failure: no second request is ever sent, and
\* the status returned is the one of that single settlement (delivered
\* exactly for a 2xx response).
C7_ClawSinglePost ==
    [][\A c \in Callers :
         /\ (deliveries[c].pc = "idle" /\ IsClawCall(deliveries'[c])) =>
              /\ deliveries'[c].pc = "fetching"
              /\ Len(deliveries'[c].requests) = 1
              /\ deliveries'[c].requests[1].method = "POST"
              /\ deliveries'[c].requests[1].url = claw.baseUrl \o "/hooks/agent"
         /\ (deliveries[c].pc = "fetching" /\ deliveries'[c] # deliveries[c]) =>
              /\ deliveries'[c].pc = "returned"
              /\ deliveries'[c].requests = deliveries[c].requests
              /\ Len(deliveries'[c].requests) = 1
              /\ deliveries'[c].result.status = "delivered"
                   <=> /\ deliveries'[c].response.kind = "response"
                       /\ deliveries'[c].response.status \in 200..299]_vars

\* C7 witness: a delivery answered 503 returned error after its single POST
\* to the configured base URL.
C7_Witness ==
    /\ IsClawCall(deliveries[1])
    /\ deliveries[1].pc = "returned"
    /\ deliveries[1].response.kind = "response"
    /\ deliveries[1].response.status = 503
    /\ deliveries[1].result.status = "error"
    /\ Len(deliveries[1].requests) = 1
    /\ deliveries[1].requests[1].url = "http://claw.internal:9000/hooks/agent"

-----------------------------------------------------------------------------
(* Concurrent deliver calls on shared actor instances                      *)

\* Caller c's deliver call takes a step.
DeliverSteps(c) ==
    /\ deliveries'[c] # deliveries[c]
    /\ deliveries'[c].pc # "idle"

\* C9: deliver writes no instance state and each call keeps its own
\* locals: whatever other calls are suspended in a delay, a command or a
\* request, a step of one call changes neither the DockerTarget or
\* OpenClawTarget fields nor another call, keeps the call's own event and
\* route config, issues the command or request that its own event and
\* route config and the init configuration determine, and returns the
\* result of its own command or request.
C9_DeliverConcurrencySafe ==
    [][\A c \in Callers :
         DeliverSteps(c) =>
           LET f == deliveries[c]
               g == deliveries'[c]
           IN /\ docker' = docker /\ claw' = claw
              /\ \A d \in Callers \ {c} : deliveries'[d] = deliveries[d]
              /\ f.pc # "idle" =>
                   /\ g.target = f.target /\ g.rc = f.rc
                   /\ g.target = "docker" => g.payload = f.payload
                   /\ g.target = "openclaw" => g.event = f.event
              /\ (g.target = "docker" /\ g.pc = "executing") =>
                   g.commands = <<DockerCommand(docker, RequestedAction(g.payload, g.rc),
                                                g.payload, g.rc)>>
              /\ (g.target = "docker" /\ g.pc = "returned" /\ f.pc = "executing") =>
                   /\ g.commands = f.commands
                   /\ g.result.status = IF g.result.exec.ok THEN "delivered" ELSE "error"
              /\ (g.target = "openclaw" /\ g.pc = "fetching") =>
                   g.requests = <<ClawRequest(claw, g.event, g.rc)>>
              /\ (g.target = "openclaw" /\ g.pc = "returned") =>
                   /\ g.requests = f.requests
                   /\ g.result.status = "delivered"
                        <=> /\ g.response.kind = "response"
                            /\ g.response.status \in 200..299]_vars

\* C9 witness: caller 1's delayed container.stop was delivered with its own
\* command while caller 2 was suspended in an HTTP request.
C9_Witness ==
    /\ IsDockerCall(deliveries[1])
    /\ deliveries[1].pc = "returned"
    /\ deliveries[1].result.status = "delivered"
    /\ deliveries[1].commands[1].args = <<"stop", "web">>
    /\ IsClawCall(deliveries[2])
    /\ deliveries[2].pc = "fetching"

-----------------------------------------------------------------------------
(* Properties of loadDotEnv                                                *)

\* The step in which the loadDotEnv call returns.
LoadDotEnvReturns == dotenvCall.pc = "reading" /\ dotenvCall'.pc = "idle"

\* The keys of the entries the .env file of a call gave ({} when no file
\* was read).
DotEnvKeys(r) ==
    IF r.read.kind = "content"
      THEN {r.read.vars[i][1] : i \in 1..Len(r.read.vars)}
      ELSE {}

\* C13: loadDotEnv leaves every variable that was set, the empty ones too,
\* with its value; it sets exactly the .env keys that were not set, each to
\* a value the .env file gives for it; the returned list holds exactly the
\* keys it set, each once; and when the .env file cannot be read it returns
\* the empty list and changes no variable.
C13_LoadDotEnvNoOverwrite ==
    [][LoadDotEnvReturns =>
         LET r      == dotenvReturn'
             loaded == {r.loaded[i] : i \in 1..Len(r.loaded)}
         IN /\ \A k \in DOMAIN env : k \in DOMAIN env' /\ env'[k] = env[k]
            /\ DOMAIN env' \ DOMAIN env = DotEnvKeys(r) \ DOMAIN env
            /\ \A k \in DOMAIN env' \ DOMAIN env :
                 \E i \in 1..Len(r.read.vars) : r.read.vars[i] = <<k, env'[k]>>
            /\ loaded = DOMAIN env' \ DOMAIN env
            /\ Cardinality(loaded) = Len(r.loaded)
            /\ r.read.kind = "error" => (r.loaded = <<>> /\ env' = env)]_vars

\* C13 witness: with API_KEY set to the empty string in the shell, a .env
\* file giving API_KEY and TOKEN loaded TOKEN alone and API_KEY stayed
\* empty.
C13_Witness ==
    /\ dotenvReturn.kind = "returned"
    /\ dotenvReturn.read.kind = "content"
    /\ dotenvReturn.read.vars = << <<"API_KEY", "from-file">>, <<"TOKEN", "other">> >>
    /\ dotenvReturn.loaded = <<"TOKEN">>
    /\ env = ("API_KEY" :> "") @@ ("TOKEN" :> "other")

-----------------------------------------------------------------------------
(* Properties of resolveConnectors                                         *)

\* The ids a list of declarations declares.
DeclaredIds(decls) == {decls[i].id : i \in 1..Len(decls)}

\* The package the (last) declaration of id names.
DeclaredConnector(decls, id) ==
    decls[CHOOSE i \in 1..Len(decls) :
            /\ decls[i].id = id
            /\ \A j \in 1..Len(decls) : decls[j].id = id => j <= i].connector

\* The registration importFn's module gave for a package in the call that
\* ended as r.
RegistrationOf(r, package) ==
    r.outcomes[CHOOSE i \in 1..Len(r.imports) : r.imports[i] = package].registration

\* The instances a returned call holds, each with the map and id it is
\* under.
HeldInstances(r) ==
    { <<"source", r.sources[i].id, r.sources[i].instance>> : i \in 1..Len(r.sources) }
    \cup { <<"actor", r.actors[i].id, r.actors[i].instance>> : i \in 1..Len(r.actors) }

\* C14: when resolveConnectors returns, the sources map has exactly the
\* declared source ids as keys and the actors map exactly the declared
\* actor ids, the instance under an id is of the source (resp. target)
\* class of the registration of the package the id's declaration names,
\* and no object is held under two entries.
C14_ResolveInstantiatesDeclared ==
    resolveReturn.kind = "returned" =>
      LET r == resolveReturn
      IN /\ {r.sources[i].id : i \in 1..Len(r.sources)} = DeclaredIds(r.config.sources)
         /\ {r.actors[i].id : i \in 1..Len(r.actors)} = DeclaredIds(r.config.actors)
         /\ Len(r.sources) = Cardinality(DeclaredIds(r.config.sources))
         /\ Len(r.actors) = Cardinality(DeclaredIds(r.config.actors))
         /\ \A i \in 1..Len(r.sources) :
              r.sources[i].instance.class =
                RegistrationOf(r, DeclaredConnector(r.config.sources, r.sources[i].id))["source"]
         /\ \A i \in 1..Len(r.actors) :
              r.actors[i].instance.class =
                RegistrationOf(r, DeclaredConnector(r.config.actors, r.actors[i].id))["target"]
         /\ \A x \in HeldInstances(r), y \in HeldInstances(r) :
              x # y => x[3] # y[3]

\* C14 witness: two sources and an actor that all name pkgA were resolved
\* to three objects.
C14_Witness ==
    /\ resolveReturn.kind = "returned"
    /\ resolveReturn.config.sources = << [id |-> "src1", connector |-> "pkgA"],
                                         [id |-> "src2", connector |-> "pkgA"] >>
    /\ resolveReturn.config.actors = << [id |-> "act1", connector |-> "pkgA"] >>
    /\ Len(resolveReturn.sources) = 2
    /\ Len(resolveReturn.actors) = 1
    /\ resolveReturn.news = 3

\* Every package the config of r names was imported and exports a
\* registration function.
AllImported(r) ==
    /\ Len(r.imports) = Cardinality({r.config.sources[i].connector :
                                       i \in 1..Len(r.config.sources)}
                                    \cup {r.config.actors[i].connector :
                                            i \in 1..Len(r.config.actors)})
    /\ \A i \in 1..Len(r.outcomes) :
         r.outcomes[i].kind = "module" /\ r.outcomes[i].default = "function"

\* The declarations of decls whose package's registration has no `kind`
\* class.
Unprovided(r, decls, kind) ==
    {i \in 1..Len(decls) : kind \notin DOMAIN RegistrationOf(r, decls[i].connector)}

First(S) == CHOOSE i \in S : \A j \in S : i <= j

\* C15: resolveConnectors throws and returns no maps when an import
\* rejects (the error names the package and carries the npm install hint
\* for it; that import is the last one and nothing was instantiated), when
\* a module's default export is no function (the error names the package),
\* when, all packages imported, the package a source names provides no
\* source (the error names connector and source id), and when the package
\* an actor names provides no target (connector and actor id).
C15_ResolveThrows ==
    resolveReturn.kind # "none" =>
      LET r == resolveReturn
          e == r.error
          failed  == {i \in 1..Len(r.outcomes) : r.outcomes[i].kind = "threw"}
          nonfunc == {i \in 1..Len(r.outcomes) :
                        r.outcomes[i].kind = "module" /\ r.outcomes[i].default # "function"}
          nosrc   == Unprovided(r, r.config.sources, "source")
          notgt   == Unprovided(r, r.config.actors, "target")
      IN /\ failed # {} =>
              /\ r.kind = "threw"
              /\ e.type = "import failed"
              /\ failed = {Len(r.imports)}
              /\ e.package = r.imports[Len(r.imports)]
              /\ e.hint = [npmInstall |-> e.package]
              /\ r.news = 0
         /\ nonfunc # {} =>
              /\ r.kind = "threw"
              /\ e.type = "no default function"
              /\ e.package = r.imports[First(nonfunc)]
         /\ (AllImported(r) /\ nosrc # {}) =>
              /\ r.kind = "threw"
              /\ e.type = "no source"
              /\ e.connector = r.config.sources[First(nosrc)].connector
              /\ e.id = r.config.sources[First(nosrc)].id
         /\ (AllImported(r) /\ nosrc = {} /\ notgt # {}) =>
              /\ r.kind = "threw"
              /\ e.type = "no target"
              /\ e.connector = r.config.actors[First(notgt)].connector
              /\ e.id = r.config.actors[First(notgt)].id

\* C15 witness: pkgA was imported, the import of pkgB then rejected, and
\* the call threw naming pkgB without having instantiated anything.
C15_Witness ==
    /\ resolveReturn.kind = "threw"
    /\ resolveReturn.imports = <<"pkgA", "pkgB">>
    /\ resolveReturn.outcomes[2].kind = "threw"
    /\ resolveReturn.error.type = "import failed"
    /\ resolveReturn.error.package = "pkgB"
    /\ resolveReturn.news = 0

====
